---- MODULE Spec2Model ----
(***************************************************************************)
(* crig / clirig: a generator of project trees from a text template.       *)
(* Two variants of the same command line tool live in the repository:      *)
(*   src/src/crig/cli.py    (variant "crig")                               *)
(*   src/src/clirig/cli.py  (variant "clirig")                             *)
(* A text is a sequence of characters, a character a one-character string; *)
(* the box-drawing glyphs are written by name: "VBAR" is U+2502, "TEE" is  *)
(* U+251C, "CORNER" is U+2514, "DASH" is U+2500, "EMDASH" is U+2014.       *)
(* Any other character outside printable ASCII, tab, newline, carriage     *)
(* return and form feed is written by its code point: "U+000B" is the      *)
(* vertical tab, "U+00A0" the no-break space, "U+00E9" the letter e acute. *)
(***************************************************************************)
EXTENDS Integers, Sequences, FiniteSets, TLC

VARIABLES variant, template, disk, disk0, pc, outcome, prev, structure, errors,
          printed, reparsed, force, gen, faults

vars == <<variant, template, disk, disk0, pc, outcome, prev, structure, errors,
          printed, reparsed, force, gen, faults>>

(***************************************************************************)
(* Bounds of the model.                                                    *)
(***************************************************************************)
\* deepest indentation level of a template line drawn by Init
MaxLevel == 2
\* longest template checked through the validator and the renderer (SpecTree)
MaxLines == 4
\* longest template materialized on disk (Spec)
MaxTemplate == 3
\* filesystem faults injected into one behaviour
MaxFaults == 1

Variants == {"crig", "clirig"}

(***************************************************************************)
(* Python's str helpers on texts.                                          *)
(***************************************************************************)
\* the characters str.isspace() holds, those str.strip(), str.split() and the
\* regex class \s take for blanks: U+0009..U+000D, U+001C..U+0020, U+0085,
\* U+00A0, U+1680, U+2000..U+200A, U+2028, U+2029, U+202F, U+205F, U+3000
Whitespace ==
    {" ", "\t", "\n", "\r", "\f", "U+000B", "U+001C", "U+001D", "U+001E", "U+001F",
     "U+0085", "U+00A0", "U+1680", "U+2000", "U+2001", "U+2002", "U+2003", "U+2004",
     "U+2005", "U+2006", "U+2007", "U+2008", "U+2009", "U+200A", "U+2028", "U+2029",
     "U+202F", "U+205F", "U+3000"}

\* number of leading characters of s that belong to cs
LeadCount(s, cs) ==
    CHOOSE n \in 0..Len(s) :
        /\ \A i \in 1..n : s[i] \in cs
        /\ (n = Len(s) \/ s[n + 1] \notin cs)

\* number of trailing characters of s that belong to cs
TrailCount(s, cs) ==
    CHOOSE n \in 0..Len(s) :
        /\ \A i \in (Len(s) - n + 1)..Len(s) : s[i] \in cs
        /\ (n = Len(s) \/ s[Len(s) - n] \notin cs)

lstrip(s, cs) == SubSeq(s, LeadCount(s, cs) + 1, Len(s))

rstrip(s, cs) == SubSeq(s, 1, Len(s) - TrailCount(s, cs))

strip(s) == lstrip(rstrip(s, Whitespace), Whitespace)

\* s.split()[0] for a text that starts with a non-blank character
FirstToken(s) == SubSeq(s, 1, LeadCount(s, {s[i] : i \in 1..Len(s)} \ Whitespace))

endswith(s, c) == Len(s) > 0 /\ s[Len(s)] = c

Repeat(c, n) == [i \in 1..n |-> c]

RECURSIVE Concat(_)
\* "".join(parts)
Concat(parts) ==
    IF parts = <<>> THEN <<>> ELSE Head(parts) \o Concat(Tail(parts))

RECURSIVE JoinLines(_)
\* "\n".join(lines)
JoinLines(lines) ==
    IF lines = <<>> THEN <<>>
    ELSE IF Len(lines) = 1 THEN lines[1]
    ELSE lines[1] \o <<"\n">> \o JoinLines(Tail(lines))

RECURSIVE SplitLines(_)
\* the lines iterating over a text file yields (universal newlines): a line
\* ends at "\n", "\r\n" or "\r" and keeps its terminator, read as "\n"; the
\* last line has none when the text does not end with one
SplitLines(text) ==
    LET n == LeadCount(text, {text[i] : i \in 1..Len(text)} \ {"\n", "\r"})
    IN  IF text = <<>> THEN <<>>
        ELSE IF n = Len(text) THEN <<text>>
        ELSE LET crlf == /\ text[n + 1] = "\r"
                         /\ n + 2 <= Len(text)
                         /\ text[n + 2] = "\n"
             IN  <<SubSeq(text, 1, n) \o <<"\n">>>>
                 \o SplitLines(SubSeq(text, IF crlf THEN n + 3 ELSE n + 2, Len(text)))

(***************************************************************************)
(* Normalization of one template line.                                     *)
(***************************************************************************)
Letters ==
    {"a", "b", "c", "d", "e", "f", "g", "h", "i", "j", "k", "l", "m",
     "n", "o", "p", "q", "r", "s", "t", "u", "v", "w", "x", "y", "z",
     "A", "B", "C", "D", "E", "F", "G", "H", "I", "J", "K", "L", "M",
     "N", "O", "P", "Q", "R", "S", "T", "U", "V", "W", "X", "Y", "Z"}

Digits == {"0", "1", "2", "3", "4", "5", "6", "7", "8", "9"}

ALLOWED_CHARS == Letters \cup Digits \cup {".", "_", "-", "/"}

HexDigits == <<"0", "1", "2", "3", "4", "5", "6", "7", "8", "9",
               "A", "B", "C", "D", "E", "F">>

\* the value of one hexadecimal digit
HexValue(h) == (CHOOSE k \in 1..16 : HexDigits[k] = h) - 1

\* c is a character written by its code point, "U+" and four to six digits
IsCodePointName(c) == Len(c) >= 6 /\ SubSeq(c, 1, 2) = "U+"

RECURSIVE HexNumber(_, _)
\* the number the first n characters of the digit string h spell
HexNumber(h, n) ==
    IF n = 0 THEN 0 ELSE 16 * HexNumber(h, n - 1) + HexValue(SubSeq(h, n, n))

\* ord(c) of a character written by its code point
CodePoint(c) == HexNumber(SubSeq(c, 3, Len(c)), Len(c) - 2)

\* the code points beyond ASCII of which str.isalnum() is true, as closed
\* ranges <<first, last>> (Unicode 14.0.0, the character database of the
\* interpreter): 133485 characters in 730 ranges
AlnumRanges ==
    {<<170, 170>>, <<178, 179>>, <<181, 181>>, <<185, 186>>, <<188, 190>>, <<192, 214>>,
     <<216, 246>>, <<248, 705>>, <<710, 721>>, <<736, 740>>, <<748, 748>>, <<750, 750>>,
     <<880, 884>>, <<886, 887>>, <<890, 893>>, <<895, 895>>, <<902, 902>>, <<904, 906>>,
     <<908, 908>>, <<910, 929>>, <<931, 1013>>, <<1015, 1153>>, <<1162, 1327>>, <<1329, 1366>>,
     <<1369, 1369>>, <<1376, 1416>>, <<1488, 1514>>, <<1519, 1522>>, <<1568, 1610>>,
     <<1632, 1641>>, <<1646, 1647>>, <<1649, 1747>>, <<1749, 1749>>, <<1765, 1766>>,
     <<1774, 1788>>, <<1791, 1791>>, <<1808, 1808>>, <<1810, 1839>>, <<1869, 1957>>,
     <<1969, 1969>>, <<1984, 2026>>, <<2036, 2037>>, <<2042, 2042>>, <<2048, 2069>>,
     <<2074, 2074>>, <<2084, 2084>>, <<2088, 2088>>, <<2112, 2136>>, <<2144, 2154>>,
     <<2160, 2183>>, <<2185, 2190>>, <<2208, 2249>>, <<2308, 2361>>, <<2365, 2365>>,
     <<2384, 2384>>, <<2392, 2401>>, <<2406, 2415>>, <<2417, 2432>>, <<2437, 2444>>,
     <<2447, 2448>>, <<2451, 2472>>, <<2474, 2480>>, <<2482, 2482>>, <<2486, 2489>>,
     <<2493, 2493>>, <<2510, 2510>>, <<2524, 2525>>, <<2527, 2529>>, <<2534, 2545>>,
     <<2548, 2553>>, <<2556, 2556>>, <<2565, 2570>>, <<2575, 2576>>, <<2579, 2600>>,
     <<2602, 2608>>, <<2610, 2611>>, <<2613, 2614>>, <<2616, 2617>>, <<2649, 2652>>,
     <<2654, 2654>>, <<2662, 2671>>, <<2674, 2676>>, <<2693, 2701>>, <<2703, 2705>>,
     <<2707, 2728>>, <<2730, 2736>>, <<2738, 2739>>, <<2741, 2745>>, <<2749, 2749>>,
     <<2768, 2768>>, <<2784, 2785>>, <<2790, 2799>>, <<2809, 2809>>, <<2821, 2828>>,
     <<2831, 2832>>, <<2835, 2856>>, <<2858, 2864>>, <<2866, 2867>>, <<2869, 2873>>,
     <<2877, 2877>>, <<2908, 2909>>, <<2911, 2913>>, <<2918, 2927>>, <<2929, 2935>>,
     <<2947, 2947>>, <<2949, 2954>>, <<2958, 2960>>, <<2962, 2965>>, <<2969, 2970>>,
     <<2972, 2972>>, <<2974, 2975>>, <<2979, 2980>>, <<2984, 2986>>, <<2990, 3001>>,
     <<3024, 3024>>, <<3046, 3058>>, <<3077, 3084>>, <<3086, 3088>>, <<3090, 3112>>,
     <<3114, 3129>>, <<3133, 3133>>, <<3160, 3162>>, <<3165, 3165>>, <<3168, 3169>>,
     <<3174, 3183>>, <<3192, 3198>>, <<3200, 3200>>, <<3205, 3212>>, <<3214, 3216>>,
     <<3218, 3240>>, <<3242, 3251>>, <<3253, 3257>>, <<3261, 3261>>, <<3293, 3294>>,
     <<3296, 3297>>, <<3302, 3311>>, <<3313, 3314>>, <<3332, 3340>>, <<3342, 3344>>,
     <<3346, 3386>>, <<3389, 3389>>, <<3406, 3406>>, <<3412, 3414>>, <<3416, 3425>>,
     <<3430, 3448>>, <<3450, 3455>>, <<3461, 3478>>, <<3482, 3505>>, <<3507, 3515>>,
     <<3517, 3517>>, <<3520, 3526>>, <<3558, 3567>>, <<3585, 3632>>, <<3634, 3635>>,
     <<3648, 3654>>, <<3664, 3673>>, <<3713, 3714>>, <<3716, 3716>>, <<3718, 3722>>,
     <<3724, 3747>>, <<3749, 3749>>, <<3751, 3760>>, <<3762, 3763>>, <<3773, 3773>>,
     <<3776, 3780>>, <<3782, 3782>>, <<3792, 3801>>, <<3804, 3807>>, <<3840, 3840>>,
     <<3872, 3891>>, <<3904, 3911>>, <<3913, 3948>>, <<3976, 3980>>, <<4096, 4138>>,
     <<4159, 4169>>, <<4176, 4181>>, <<4186, 4189>>, <<4193, 4193>>, <<4197, 4198>>,
     <<4206, 4208>>, <<4213, 4225>>, <<4238, 4238>>, <<4240, 4249>>, <<4256, 4293>>,
     <<4295, 4295>>, <<4301, 4301>>, <<4304, 4346>>, <<4348, 4680>>, <<4682, 4685>>,
     <<4688, 4694>>, <<4696, 4696>>, <<4698, 4701>>, <<4704, 4744>>, <<4746, 4749>>,
     <<4752, 4784>>, <<4786, 4789>>, <<4792, 4798>>, <<4800, 4800>>, <<4802, 4805>>,
     <<4808, 4822>>, <<4824, 4880>>, <<4882, 4885>>, <<4888, 4954>>, <<4969, 4988>>,
     <<4992, 5007>>, <<5024, 5109>>, <<5112, 5117>>, <<5121, 5740>>, <<5743, 5759>>,
     <<5761, 5786>>, <<5792, 5866>>, <<5870, 5880>>, <<5888, 5905>>, <<5919, 5937>>,
     <<5952, 5969>>, <<5984, 5996>>, <<5998, 6000>>, <<6016, 6067>>, <<6103, 6103>>,
     <<6108, 6108>>, <<6112, 6121>>, <<6128, 6137>>, <<6160, 6169>>, <<6176, 6264>>,
     <<6272, 6276>>, <<6279, 6312>>, <<6314, 6314>>, <<6320, 6389>>, <<6400, 6430>>,
     <<6470, 6509>>, <<6512, 6516>>, <<6528, 6571>>, <<6576, 6601>>, <<6608, 6618>>,
     <<6656, 6678>>, <<6688, 6740>>, <<6784, 6793>>, <<6800, 6809>>, <<6823, 6823>>,
     <<6917, 6963>>, <<6981, 6988>>, <<6992, 7001>>, <<7043, 7072>>, <<7086, 7141>>,
     <<7168, 7203>>, <<7232, 7241>>, <<7245, 7293>>, <<7296, 7304>>, <<7312, 7354>>,
     <<7357, 7359>>, <<7401, 7404>>, <<7406, 7411>>, <<7413, 7414>>, <<7418, 7418>>,
     <<7424, 7615>>, <<7680, 7957>>, <<7960, 7965>>, <<7968, 8005>>, <<8008, 8013>>,
     <<8016, 8023>>, <<8025, 8025>>, <<8027, 8027>>, <<8029, 8029>>, <<8031, 8061>>,
     <<8064, 8116>>, <<8118, 8124>>, <<8126, 8126>>, <<8130, 8132>>, <<8134, 8140>>,
     <<8144, 8147>>, <<8150, 8155>>, <<8160, 8172>>, <<8178, 8180>>, <<8182, 8188>>,
     <<8304, 8305>>, <<8308, 8313>>, <<8319, 8329>>, <<8336, 8348>>, <<8450, 8450>>,
     <<8455, 8455>>, <<8458, 8467>>, <<8469, 8469>>, <<8473, 8477>>, <<8484, 8484>>,
     <<8486, 8486>>, <<8488, 8488>>, <<8490, 8493>>, <<8495, 8505>>, <<8508, 8511>>,
     <<8517, 8521>>, <<8526, 8526>>, <<8528, 8585>>, <<9312, 9371>>, <<9450, 9471>>,
     <<10102, 10131>>, <<11264, 11492>>, <<11499, 11502>>, <<11506, 11507>>, <<11517, 11517>>,
     <<11520, 11557>>, <<11559, 11559>>, <<11565, 11565>>, <<11568, 11623>>, <<11631, 11631>>,
     <<11648, 11670>>, <<11680, 11686>>, <<11688, 11694>>, <<11696, 11702>>, <<11704, 11710>>,
     <<11712, 11718>>, <<11720, 11726>>, <<11728, 11734>>, <<11736, 11742>>, <<11823, 11823>>,
     <<12293, 12295>>, <<12321, 12329>>, <<12337, 12341>>, <<12344, 12348>>, <<12353, 12438>>,
     <<12445, 12447>>, <<12449, 12538>>, <<12540, 12543>>, <<12549, 12591>>, <<12593, 12686>>,
     <<12690, 12693>>, <<12704, 12735>>, <<12784, 12799>>, <<12832, 12841>>, <<12872, 12879>>,
     <<12881, 12895>>, <<12928, 12937>>, <<12977, 12991>>, <<13312, 19903>>, <<19968, 42124>>,
     <<42192, 42237>>, <<42240, 42508>>, <<42512, 42539>>, <<42560, 42606>>, <<42623, 42653>>,
     <<42656, 42735>>, <<42775, 42783>>, <<42786, 42888>>, <<42891, 42954>>, <<42960, 42961>>,
     <<42963, 42963>>, <<42965, 42969>>, <<42994, 43009>>, <<43011, 43013>>, <<43015, 43018>>,
     <<43020, 43042>>, <<43056, 43061>>, <<43072, 43123>>, <<43138, 43187>>, <<43216, 43225>>,
     <<43250, 43255>>, <<43259, 43259>>, <<43261, 43262>>, <<43264, 43301>>, <<43312, 43334>>,
     <<43360, 43388>>, <<43396, 43442>>, <<43471, 43481>>, <<43488, 43492>>, <<43494, 43518>>,
     <<43520, 43560>>, <<43584, 43586>>, <<43588, 43595>>, <<43600, 43609>>, <<43616, 43638>>,
     <<43642, 43642>>, <<43646, 43695>>, <<43697, 43697>>, <<43701, 43702>>, <<43705, 43709>>,
     <<43712, 43712>>, <<43714, 43714>>, <<43739, 43741>>, <<43744, 43754>>, <<43762, 43764>>,
     <<43777, 43782>>, <<43785, 43790>>, <<43793, 43798>>, <<43808, 43814>>, <<43816, 43822>>,
     <<43824, 43866>>, <<43868, 43881>>, <<43888, 44002>>, <<44016, 44025>>, <<44032, 55203>>,
     <<55216, 55238>>, <<55243, 55291>>, <<63744, 64109>>, <<64112, 64217>>, <<64256, 64262>>,
     <<64275, 64279>>, <<64285, 64285>>, <<64287, 64296>>, <<64298, 64310>>, <<64312, 64316>>,
     <<64318, 64318>>, <<64320, 64321>>, <<64323, 64324>>, <<64326, 64433>>, <<64467, 64829>>,
     <<64848, 64911>>, <<64914, 64967>>, <<65008, 65019>>, <<65136, 65140>>, <<65142, 65276>>,
     <<65296, 65305>>, <<65313, 65338>>, <<65345, 65370>>, <<65382, 65470>>, <<65474, 65479>>,
     <<65482, 65487>>, <<65490, 65495>>, <<65498, 65500>>, <<65536, 65547>>, <<65549, 65574>>,
     <<65576, 65594>>, <<65596, 65597>>, <<65599, 65613>>, <<65616, 65629>>, <<65664, 65786>>,
     <<65799, 65843>>, <<65856, 65912>>, <<65930, 65931>>, <<66176, 66204>>, <<66208, 66256>>,
     <<66273, 66299>>, <<66304, 66339>>, <<66349, 66378>>, <<66384, 66421>>, <<66432, 66461>>,
     <<66464, 66499>>, <<66504, 66511>>, <<66513, 66517>>, <<66560, 66717>>, <<66720, 66729>>,
     <<66736, 66771>>, <<66776, 66811>>, <<66816, 66855>>, <<66864, 66915>>, <<66928, 66938>>,
     <<66940, 66954>>, <<66956, 66962>>, <<66964, 66965>>, <<66967, 66977>>, <<66979, 66993>>,
     <<66995, 67001>>, <<67003, 67004>>, <<67072, 67382>>, <<67392, 67413>>, <<67424, 67431>>,
     <<67456, 67461>>, <<67463, 67504>>, <<67506, 67514>>, <<67584, 67589>>, <<67592, 67592>>,
     <<67594, 67637>>, <<67639, 67640>>, <<67644, 67644>>, <<67647, 67669>>, <<67672, 67702>>,
     <<67705, 67742>>, <<67751, 67759>>, <<67808, 67826>>, <<67828, 67829>>, <<67835, 67867>>,
     <<67872, 67897>>, <<67968, 68023>>, <<68028, 68047>>, <<68050, 68096>>, <<68112, 68115>>,
     <<68117, 68119>>, <<68121, 68149>>, <<68160, 68168>>, <<68192, 68222>>, <<68224, 68255>>,
     <<68288, 68295>>, <<68297, 68324>>, <<68331, 68335>>, <<68352, 68405>>, <<68416, 68437>>,
     <<68440, 68466>>, <<68472, 68497>>, <<68521, 68527>>, <<68608, 68680>>, <<68736, 68786>>,
     <<68800, 68850>>, <<68858, 68899>>, <<68912, 68921>>, <<69216, 69246>>, <<69248, 69289>>,
     <<69296, 69297>>, <<69376, 69415>>, <<69424, 69445>>, <<69457, 69460>>, <<69488, 69505>>,
     <<69552, 69579>>, <<69600, 69622>>, <<69635, 69687>>, <<69714, 69743>>, <<69745, 69746>>,
     <<69749, 69749>>, <<69763, 69807>>, <<69840, 69864>>, <<69872, 69881>>, <<69891, 69926>>,
     <<69942, 69951>>, <<69956, 69956>>, <<69959, 69959>>, <<69968, 70002>>, <<70006, 70006>>,
     <<70019, 70066>>, <<70081, 70084>>, <<70096, 70106>>, <<70108, 70108>>, <<70113, 70132>>,
     <<70144, 70161>>, <<70163, 70187>>, <<70272, 70278>>, <<70280, 70280>>, <<70282, 70285>>,
     <<70287, 70301>>, <<70303, 70312>>, <<70320, 70366>>, <<70384, 70393>>, <<70405, 70412>>,
     <<70415, 70416>>, <<70419, 70440>>, <<70442, 70448>>, <<70450, 70451>>, <<70453, 70457>>,
     <<70461, 70461>>, <<70480, 70480>>, <<70493, 70497>>, <<70656, 70708>>, <<70727, 70730>>,
     <<70736, 70745>>, <<70751, 70753>>, <<70784, 70831>>, <<70852, 70853>>, <<70855, 70855>>,
     <<70864, 70873>>, <<71040, 71086>>, <<71128, 71131>>, <<71168, 71215>>, <<71236, 71236>>,
     <<71248, 71257>>, <<71296, 71338>>, <<71352, 71352>>, <<71360, 71369>>, <<71424, 71450>>,
     <<71472, 71483>>, <<71488, 71494>>, <<71680, 71723>>, <<71840, 71922>>, <<71935, 71942>>,
     <<71945, 71945>>, <<71948, 71955>>, <<71957, 71958>>, <<71960, 71983>>, <<71999, 71999>>,
     <<72001, 72001>>, <<72016, 72025>>, <<72096, 72103>>, <<72106, 72144>>, <<72161, 72161>>,
     <<72163, 72163>>, <<72192, 72192>>, <<72203, 72242>>, <<72250, 72250>>, <<72272, 72272>>,
     <<72284, 72329>>, <<72349, 72349>>, <<72368, 72440>>, <<72704, 72712>>, <<72714, 72750>>,
     <<72768, 72768>>, <<72784, 72812>>, <<72818, 72847>>, <<72960, 72966>>, <<72968, 72969>>,
     <<72971, 73008>>, <<73030, 73030>>, <<73040, 73049>>, <<73056, 73061>>, <<73063, 73064>>,
     <<73066, 73097>>, <<73112, 73112>>, <<73120, 73129>>, <<73440, 73458>>, <<73648, 73648>>,
     <<73664, 73684>>, <<73728, 74649>>, <<74752, 74862>>, <<74880, 75075>>, <<77712, 77808>>,
     <<77824, 78894>>, <<82944, 83526>>, <<92160, 92728>>, <<92736, 92766>>, <<92768, 92777>>,
     <<92784, 92862>>, <<92864, 92873>>, <<92880, 92909>>, <<92928, 92975>>, <<92992, 92995>>,
     <<93008, 93017>>, <<93019, 93025>>, <<93027, 93047>>, <<93053, 93071>>, <<93760, 93846>>,
     <<93952, 94026>>, <<94032, 94032>>, <<94099, 94111>>, <<94176, 94177>>, <<94179, 94179>>,
     <<94208, 100343>>, <<100352, 101589>>, <<101632, 101640>>, <<110576, 110579>>,
     <<110581, 110587>>, <<110589, 110590>>, <<110592, 110882>>, <<110928, 110930>>,
     <<110948, 110951>>, <<110960, 111355>>, <<113664, 113770>>, <<113776, 113788>>,
     <<113792, 113800>>, <<113808, 113817>>, <<119520, 119539>>, <<119648, 119672>>,
     <<119808, 119892>>, <<119894, 119964>>, <<119966, 119967>>, <<119970, 119970>>,
     <<119973, 119974>>, <<119977, 119980>>, <<119982, 119993>>, <<119995, 119995>>,
     <<119997, 120003>>, <<120005, 120069>>, <<120071, 120074>>, <<120077, 120084>>,
     <<120086, 120092>>, <<120094, 120121>>, <<120123, 120126>>, <<120128, 120132>>,
     <<120134, 120134>>, <<120138, 120144>>, <<120146, 120485>>, <<120488, 120512>>,
     <<120514, 120538>>, <<120540, 120570>>, <<120572, 120596>>, <<120598, 120628>>,
     <<120630, 120654>>, <<120656, 120686>>, <<120688, 120712>>, <<120714, 120744>>,
     <<120746, 120770>>, <<120772, 120779>>, <<120782, 120831>>, <<122624, 122654>>,
     <<123136, 123180>>, <<123191, 123197>>, <<123200, 123209>>, <<123214, 123214>>,
     <<123536, 123565>>, <<123584, 123627>>, <<123632, 123641>>, <<124896, 124902>>,
     <<124904, 124907>>, <<124909, 124910>>, <<124912, 124926>>, <<124928, 125124>>,
     <<125127, 125135>>, <<125184, 125251>>, <<125259, 125259>>, <<125264, 125273>>,
     <<126065, 126123>>, <<126125, 126127>>, <<126129, 126132>>, <<126209, 126253>>,
     <<126255, 126269>>, <<126464, 126467>>, <<126469, 126495>>, <<126497, 126498>>,
     <<126500, 126500>>, <<126503, 126503>>, <<126505, 126514>>, <<126516, 126519>>,
     <<126521, 126521>>, <<126523, 126523>>, <<126530, 126530>>, <<126535, 126535>>,
     <<126537, 126537>>, <<126539, 126539>>, <<126541, 126543>>, <<126545, 126546>>,
     <<126548, 126548>>, <<126551, 126551>>, <<126553, 126553>>, <<126555, 126555>>,
     <<126557, 126557>>, <<126559, 126559>>, <<126561, 126562>>, <<126564, 126564>>,
     <<126567, 126570>>, <<126572, 126578>>, <<126580, 126583>>, <<126585, 126588>>,
     <<126590, 126590>>, <<126592, 126601>>, <<126603, 126619>>, <<126625, 126627>>,
     <<126629, 126633>>, <<126635, 126651>>, <<127232, 127244>>, <<130032, 130041>>,
     <<131072, 173791>>, <<173824, 177976>>, <<177984, 178205>>, <<178208, 183969>>,
     <<183984, 191456>>, <<194560, 195101>>, <<196608, 201546>>}

\* str.isalnum(): true of every Unicode letter or digit
isalnum(c) ==
    \/ c \in Letters \cup Digits
    \/ /\ IsCodePointName(c)
       /\ \E r \in AlnumRanges : r[1] <= CodePoint(c) /\ CodePoint(c) <= r[2]

IndentChunks == {<<"VBAR", " ", " ", " ">>, <<" ", " ", " ", " ">>}

\* raw[i : i + 4] for the k-th chunk (k from 0), cut short at the end of the line
Chunk(raw, k) ==
    SubSeq(raw, 4 * k + 1, IF 4 * k + 4 <= Len(raw) THEN 4 * k + 4 ELSE Len(raw))

\* the loop "for i in range(0, len(raw), 4)": leading indent chunks of the line
ChunkLevel(raw) ==
    CHOOSE k \in 0..Len(raw) :
        /\ \A j \in 0..(k - 1) : Chunk(raw, j) \in IndentChunks
        /\ Chunk(raw, k) \notin IndentChunks

\* TREE_PREFIX_RE.sub("", raw) with TREE_PREFIX_RE = ^[VBAR\s]*[TEE CORNER]DASH DASH\s*
StripTreePrefix(raw) ==
    LET n == LeadCount(raw, {"VBAR"} \cup Whitespace)
    IN  IF /\ n + 3 <= Len(raw)
           /\ raw[n + 1] \in {"TEE", "CORNER"}
           /\ raw[n + 2] = "DASH"
           /\ raw[n + 3] = "DASH"
        THEN lstrip(SubSeq(raw, n + 4, Len(raw)), Whitespace)
        ELSE raw

\* indent of a line: leading tabs, or leading 4-character indent chunks
LineIndent(raw) ==
    IF Len(raw) > 0 /\ raw[1] = "\t" THEN LeadCount(raw, {"\t"}) ELSE ChunkLevel(raw)

\* content of a line once its indentation and tree glyphs are removed
LineContent(raw) ==
    IF Len(raw) > 0 /\ raw[1] = "\t" THEN strip(raw) ELSE strip(StripTreePrefix(raw))

InvalidStartsCrig == {"(", "[", "-", "/", "EMDASH", "!", "?", "#", "*"}

InvalidStartsClirig == {"/", "-", "EMDASH", "!", "?", "#", "*", "("}

\* crig normalize_line: the normalized line, or the empty text for a dropped line
normalize_line_crig(line) ==
    LET raw     == rstrip(line, {"\n"})
        content == LineContent(raw)
        name    == FirstToken(content)
    IN  IF content = <<>> THEN <<>>
        ELSE IF name[1] \in InvalidStartsCrig THEN <<>>
        ELSE IF \E i \in 1..Len(name) : ~(isalnum(name[i]) \/ name[i] \in {"_", "-", ".", "/"})
             THEN <<>>
        ELSE Repeat("\t", LineIndent(raw)) \o name

\* clirig normalize_line: (normalized line, None) or (None, reason)
normalize_line_clirig(line) ==
    LET raw     == rstrip(line, {"\n"})
        content == LineContent(raw)
        name    == FirstToken(content)
    IN  IF strip(raw) = <<>> THEN [norm |-> <<>>, reason |-> "empty line"]
        ELSE IF content = <<>> THEN [norm |-> <<>>, reason |-> "no filename detected"]
        ELSE IF name[1] \in InvalidStartsClirig
             THEN [norm |-> <<>>, reason |-> "invalid name prefix"]
        ELSE IF \E i \in 1..Len(name) : name[i] \notin ALLOWED_CHARS
             THEN [norm |-> <<>>, reason |-> "invalid characters in name"]
        ELSE [norm |-> Repeat("\t", LineIndent(raw)) \o name, reason |-> "None"]

\* the normalized line of either variant (empty for a dropped line)
normalize_line(v, line) ==
    IF v = "crig" THEN normalize_line_crig(line) ELSE normalize_line_clirig(line).norm

(***************************************************************************)
(* Parsing: the entries (lineno, level, name) of a template.               *)
(***************************************************************************)
RECURSIVE ParseFrom(_, _, _)
ParseFrom(v, lines, lineno) ==
    IF lineno > Len(lines) THEN <<>>
    ELSE LET raw        == lines[lineno]
             blank      == v = "crig" /\ strip(raw) = <<>>
             normalized == IF blank THEN <<>> ELSE normalize_line(v, raw)
         IN  IF normalized = <<>> THEN ParseFrom(v, lines, lineno + 1)
             ELSE <<[lineno |-> lineno,
                     level  |-> LeadCount(normalized, {"\t"}),
                     name   |-> lstrip(normalized, {"\t"})]>>
                  \o ParseFrom(v, lines, lineno + 1)

\* parse_template over the lines of the template file
parse_template(v, lines) == ParseFrom(v, lines, 1)

(***************************************************************************)
(* Validation of the parsed entries.  An error is a record: its kind, the  *)
(* line it names (0 when it names none) and the name it shows.             *)
(***************************************************************************)
Min(a, b) == IF a < b THEN a ELSE b

\* Python's s[:n]
Take(s, n) == SubSeq(s, 1, Min(n, Len(s)))

Err(kind, lineno, subject) == [kind |-> kind, lineno |-> lineno, subject |-> subject]

RECURSIVE ValidateCrigFrom(_, _, _, _, _)
\* the loop of crig validate_structure from entry i on
ValidateCrigFrom(s, i, errs, stack, seen) ==
    IF i > Len(s) THEN errs
    ELSE LET e    == s[i]
             jump == e.level > Len(stack)
             e1   == IF jump
                     THEN errs \o <<Err("jump", e.lineno, e.name)>>
                     ELSE errs
             e2   == IF stack # <<>> /\ jump /\ ~endswith(stack[Len(stack)], "/")
                     THEN e1 \o <<Err("file_children", e.lineno, stack[Len(stack)])>>
                     ELSE e1
             e3   == IF <<e.level, e.name>> \in seen
                     THEN e2 \o <<Err("duplicate", e.lineno, e.name)>>
                     ELSE e2
         IN  ValidateCrigFrom(s, i + 1, e3, Take(stack, e.level) \o <<e.name>>,
                              seen \cup {<<e.level, e.name>>})

validate_structure_crig(s) == ValidateCrigFrom(s, 1, <<>>, <<>>, {})

RECURSIVE RootScan(_, _, _)
\* first loop of clirig validate_structure: the errors it returns with, if any
RootScan(s, i, seen_root) ==
    IF i > Len(s) THEN <<>>
    ELSE IF s[i].level = 0 THEN RootScan(s, i + 1, TRUE)
    ELSE IF ~seen_root THEN <<Err("no_root_above", s[i].lineno, s[i].name)>>
    ELSE RootScan(s, i + 1, seen_root)

RECURSIVE ValidateClirigFrom(_, _, _, _, _, _)
\* main loop of clirig validate_structure from entry i on; dropped collects the
\* lines that take the duplicate branch (skipped without an error)
ValidateClirigFrom(s, i, errs, stack, seen, dropped) ==
    IF i > Len(s) THEN [errors |-> errs, dropped |-> dropped]
    ELSE LET e == s[i]
         IN  IF e.level > Len(stack) + 1
             THEN ValidateClirigFrom(s, i + 1, errs \o <<Err("jump", e.lineno, e.name)>>,
                                     stack, seen, dropped)
             ELSE IF /\ e.level = Len(stack) + 1
                     /\ stack # <<>>
                     /\ ~endswith(stack[Len(stack)], "/")
             THEN ValidateClirigFrom(s, i + 1,
                     errs \o <<Err("file_children", e.lineno, stack[Len(stack)])>>,
                     stack, seen, dropped)
             ELSE IF <<e.level, e.name>> \in seen
             THEN ValidateClirigFrom(s, i + 1, errs, stack, seen,
                                     dropped \cup {e.lineno})
             ELSE ValidateClirigFrom(s, i + 1, errs, Take(stack, e.level) \o <<e.name>>,
                                     seen \cup {<<e.level, e.name>>}, dropped)

\* clirig validate_structure with the lines its duplicate branch skipped
ValidateClirig(s) ==
    IF RootScan(s, 1, FALSE) # <<>>
    THEN [errors |-> RootScan(s, 1, FALSE), dropped |-> {}]
    ELSE IF \A i \in 1..Len(s) : s[i].level # 0
    THEN [errors |-> <<Err("no_root", 0, <<>>)>>, dropped |-> {}]
    ELSE ValidateClirigFrom(s, 1, <<>>, <<>>, {}, {})

validate_structure_clirig(s) == ValidateClirig(s).errors

validate_structure(v, s) ==
    IF v = "crig" THEN validate_structure_crig(s) ELSE validate_structure_clirig(s)

(***************************************************************************)
(* Rendering of the entries as a tree diagram.                             *)
(***************************************************************************)
CornerConnector == <<"CORNER", "DASH", "DASH", " ">>

TeeConnector == <<"TEE", "DASH", "DASH", " ">>

BarIndent == <<"VBAR", " ", " ", " ">>

BlankIndent == <<" ", " ", " ", " ">>

\* is_last of crig render_tree for entry i
IsLastCrig(s, i) == i = Len(s) \/ s[i + 1].level < s[i].level + 1

\* is_last of clirig render_tree for entry i
IsLastClirig(s, i) == i = Len(s) \/ s[i + 1].level <= s[i].level

is_last(v, s, i) == IF v = "crig" THEN IsLastCrig(s, i) ELSE IsLastClirig(s, i)

\* last_at_level once entry i has been entered into it
NextLastAtLevel(lal, level, last) ==
    LET cut == IF Len(lal) > level THEN Take(lal, level) ELSE lal
    IN  IF Len(cut) = level THEN Append(cut, last) ELSE Take(cut, level) \o <<last>>

IndentPart(lal, lvl) == IF ~lal[lvl + 1] THEN BarIndent ELSE BlankIndent

\* prefix of crig: for lvl in range(level): if lvl < len(last_at_level) - 1
PrefixCrig(lal, level) ==
    Concat([k \in 1..Min(level, Len(lal) - 1) |-> IndentPart(lal, k - 1)])

\* prefix of clirig: for lvl in range(len(last_at_level) - 1)
PrefixClirig(lal, level) ==
    Concat([k \in 1..(Len(lal) - 1) |-> IndentPart(lal, k - 1)])

RenderLine(v, lal, level, last, name) ==
    (IF v = "crig" THEN PrefixCrig(lal, level) ELSE PrefixClirig(lal, level))
    \o (IF last THEN CornerConnector ELSE TeeConnector) \o name

RECURSIVE RenderFrom(_, _, _, _)
\* the lines render_tree appends from entry i on
RenderFrom(v, s, i, lal) ==
    IF i > Len(s) THEN <<>>
    ELSE LET last == is_last(v, s, i)
             nl   == NextLastAtLevel(lal, s[i].level, last)
         IN  <<RenderLine(v, nl, s[i].level, last, s[i].name)>>
             \o RenderFrom(v, s, i + 1, nl)

\* render_tree: the diagram as one text
render_tree(v, s) == IF s = <<>> THEN <<>> ELSE JoinLines(RenderFrom(v, s, 1, <<>>))

\* the (level, name) pairs of a list of entries
LevelNames(s) == [i \in 1..Len(s) |-> <<s[i].level, s[i].name>>]

(***************************************************************************)
(* The filesystem seen from the destination directory.  A path is the      *)
(* sequence of the components os.path.join and the separator give it below *)
(* the destination, a component a text, "." and ".." among them.  A        *)
(* location is what a path resolves to: the components from the            *)
(* destination down, the destination itself being the empty location, or,  *)
(* outside it, as many ".." as lead up to a directory above it, then the   *)
(* components down from there.  The directories above the destination      *)
(* exist; the destination lies deeper than any path climbs, and no path    *)
(* comes back into it through its own name.                                *)
(***************************************************************************)
EmptyDisk == [dirs |-> {<<>>}, files |-> <<>>]

Dot == <<".">>

DotDot == <<".", ".">>

RECURSIVE SplitPath(_)
\* the components of a text between its "/" separators
SplitPath(text) ==
    LET n == LeadCount(text, {text[i] : i \in 1..Len(text)} \ {"/"})
    IN  IF text = <<>> THEN <<>>
        ELSE IF n = 0 THEN SplitPath(Tail(text))
        ELSE <<SubSeq(text, 1, n)>> \o SplitPath(SubSeq(text, n + 1, Len(text)))

\* os.path.dirname
dirname(path) == SubSeq(path, 1, Len(path) - 1)

\* a directory above the destination
IsAbove(loc) == loc # <<>> /\ \A i \in 1..Len(loc) : loc[i] = DotDot

IsDir(d, loc) == loc \in d.dirs \/ IsAbove(loc)

IsFile(d, loc) == loc \in DOMAIN d.files

\* the location the directory at loc gives for the component c
Lookup(loc, c) ==
    IF c = Dot THEN loc
    ELSE IF c = DotDot
         THEN IF loc = <<>> \/ IsAbove(loc) THEN loc \o <<DotDot>>
              ELSE SubSeq(loc, 1, Len(loc) - 1)
    ELSE loc \o <<c>>

RECURSIVE Resolve(_, _)
\* path resolution by the operating system: every component but the last
\* must lead to an existing directory; loc is where the last one points
Resolve(d, path) ==
    IF path = <<>> THEN [ok |-> TRUE, loc |-> <<>>]
    ELSE LET r == Resolve(d, dirname(path))
         IN  IF r.ok /\ IsDir(d, r.loc)
             THEN [ok |-> TRUE, loc |-> Lookup(r.loc, path[Len(path)])]
             ELSE [ok |-> FALSE, loc |-> <<>>]

\* os.path.exists
exists(d, path) ==
    LET r == Resolve(d, path) IN r.ok /\ (IsDir(d, r.loc) \/ IsFile(d, r.loc))

\* os.path.isdir
isdir(d, path) == LET r == Resolve(d, path) IN r.ok /\ IsDir(d, r.loc)

\* os.mkdir: raises FileExistsError when the path exists, another OSError
\* (FileNotFoundError, NotADirectoryError) when its parent is no directory
mkdir(d, path) ==
    LET r == Resolve(d, path)
    IN  IF r.ok /\ ~IsDir(d, r.loc) /\ ~IsFile(d, r.loc)
        THEN [ok |-> TRUE, err |-> "none", disk |-> [d EXCEPT !.dirs = @ \cup {r.loc}]]
        ELSE [ok |-> FALSE, err |-> IF r.ok THEN "FileExistsError" ELSE "OSError",
              disk |-> d]

RECURSIVE makedirs(_, _)
\* os.makedirs(path, exist_ok=True): the missing head first, a FileExistsError
\* of that call passed over, and a return there when the tail is "."; then
\* mkdir of the path, whose failure is passed over when the path is a
\* directory.  disk holds what was created before a failure.
makedirs(d, path) ==
    LET head    == dirname(path)
        missing == path # <<>> /\ ~exists(d, head)
        up      == IF missing THEN makedirs(d, head)
                   ELSE [ok |-> TRUE, err |-> "none", disk |-> d]
        mk      == mkdir(up.disk, path)
    IN  IF ~up.ok /\ up.err # "FileExistsError" THEN up
        ELSE IF missing /\ path[Len(path)] = Dot
        THEN [ok |-> TRUE, err |-> "none", disk |-> up.disk]
        ELSE IF mk.ok THEN mk
        ELSE IF isdir(up.disk, path) THEN [ok |-> TRUE, err |-> "none", disk |-> up.disk]
        ELSE [ok |-> FALSE, err |-> mk.err, disk |-> up.disk]

\* open(path, "w"): raises OSError on a directory or under a missing directory
CanOpen(d, path) == LET r == Resolve(d, path) IN r.ok /\ ~IsDir(d, r.loc)

\* the file the path resolves to holds exactly content
WriteFile(d, path, content) ==
    LET loc == Resolve(d, path).loc
    IN  [d EXCEPT !.files = [q \in (DOMAIN d.files) \cup {loc} |->
                                IF q = loc THEN content ELSE d.files[q]]]

(***************************************************************************)
(* Boilerplate presets.                                                    *)
(***************************************************************************)
MainPy == <<"m", "a", "i", "n", ".", "p", "y">>

InitPy == <<"_", "_", "i", "n", "i", "t", "_", "_", ".", "p", "y">>

ReadmeMd == <<"R", "E", "A", "D", "M", "E", ".", "m", "d">>

GitIgnore == <<".", "g", "i", "t", "i", "g", "n", "o", "r", "e">>

\* the keys of FILE_TEMPLATES
FILE_TEMPLATES == {MainPy, InitPy, ReadmeMd, GitIgnore}

NoContent == [preset |-> <<>>, project_name |-> <<>>, structure |-> <<>>]

\* what generate writes into a file: template.format(project_name, structure),
\* or nothing; only the README preset holds the two placeholders
FileContent(v, filename, root_name, s) ==
    IF filename \notin FILE_TEMPLATES THEN NoContent
    ELSE IF filename = ReadmeMd
    THEN [preset |-> filename, project_name |-> root_name, structure |-> render_tree(v, s)]
    ELSE [preset |-> filename, project_name |-> <<>>, structure |-> <<>>]

(***************************************************************************)
(* generate: one step per entry of the structure.                          *)
(***************************************************************************)
NoGen == [i |-> 0, stack |-> <<>>, base_path |-> <<>>, root_name |-> <<>>,
          created_dirs |-> 0, created_files |-> 0, skipped_files |-> 0, log |-> <<>>]

WrapperDir == <<"c", "r", "i", "g", "_", "r", "o", "o", "t">>

Roots(s) == {i \in 1..Len(s) : s[i].level = 0}

FirstRoot(s) == s[CHOOSE i \in Roots(s) : \A j \in Roots(s) : i <= j]

\* what happened to one entry: the line, the path built for it, the result
Event(e, path, result) == [lineno |-> e.lineno, path |-> path, result |-> result]

\* os.path.join(base_path, *stack[:level], name.rstrip("/")): the path generate
\* builds for entry e, as its components
EntryPath(g, e) ==
    g.base_path
    \o Concat([k \in 1..Min(e.level, Len(g.stack)) |-> SplitPath(g.stack[k])])
    \o SplitPath(rstrip(e.name, {"/"}))

\* crig: a directory entry; fault is the call of this entry that raises OSError
CrigDirStep(d, g, e, fault) ==
    LET path == EntryPath(g, e)
        md   == makedirs(d, path)
    IN  IF fault = "makedirs" \/ ~md.ok
        THEN [disk |-> IF fault = "makedirs" THEN d ELSE md.disk, crashed |-> FALSE,
              gen  |-> [g EXCEPT !.i = @ + 1, !.stack = Take(g.stack, e.level),
                                 !.log = Append(@, Event(e, path, "dir_failed"))]]
        ELSE [disk |-> md.disk, crashed |-> FALSE,
              gen  |-> [g EXCEPT !.i = @ + 1,
                                 !.stack = Take(g.stack, e.level) \o <<rstrip(e.name, {"/"})>>,
                                 !.created_dirs = @ + 1,
                                 !.log = Append(@, Event(e, path, "dir"))]]

\* a slip in the test of crig: existing files are the ones written
WriteWantedCrigInverted(f, existed) == f \/ existed

\* crig: "if force or not file_exists", else the file is skipped
WriteWantedCrig(f, existed) == f \/ ~existed

\* clirig: "if force or not os.path.exists(path)"
WriteWantedClirig(f, existed) == f \/ ~existed

\* crig: a file entry
CrigFileStep(v, d, g, e, s, f, fault) ==
    LET path    == EntryPath(g, e)
        md      == makedirs(d, dirname(path))
        next    == [g EXCEPT !.i = @ + 1, !.stack = Take(g.stack, e.level)]
        content == FileContent(v, path[Len(path)], g.root_name, s)
        existed == exists(md.disk, path)
    IN  IF fault = "makedirs" \/ ~md.ok
        THEN [disk |-> IF fault = "makedirs" THEN d ELSE md.disk, crashed |-> FALSE,
              gen  |-> [next EXCEPT !.log = Append(@, Event(e, path, "parent_failed"))]]
        ELSE IF ~WriteWantedCrig(f, existed)
        THEN [disk |-> md.disk, crashed |-> FALSE,
              gen  |-> [next EXCEPT !.skipped_files = @ + 1,
                                    !.log = Append(@, Event(e, path, "skipped"))]]
        ELSE IF fault = "open" \/ ~CanOpen(md.disk, path)
        THEN [disk |-> md.disk, crashed |-> FALSE,
              gen  |-> [next EXCEPT !.log = Append(@, Event(e, path, "write_failed"))]]
        ELSE IF fault = "write"
        THEN [disk |-> WriteFile(md.disk, path, NoContent), crashed |-> FALSE,
              gen  |-> [next EXCEPT !.log = Append(@, Event(e, path, "write_failed"))]]
        ELSE [disk |-> WriteFile(md.disk, path, content), crashed |-> FALSE,
              gen  |-> [next EXCEPT !.created_files = @ + 1,
                                    !.log = Append(@, Event(e, path,
                                        IF existed THEN "overwritten" ELSE "created"))]]

\* clirig: a directory entry; an OSError leaves generate
ClirigDirStep(d, g, e, fault) ==
    LET path == EntryPath(g, e)
        md   == makedirs(d, path)
    IN  IF fault = "makedirs" \/ ~md.ok
        THEN [disk |-> IF fault = "makedirs" THEN d ELSE md.disk, crashed |-> TRUE,
              gen  |-> [g EXCEPT !.stack = Take(g.stack, e.level)]]
        ELSE [disk |-> md.disk, crashed |-> FALSE,
              gen  |-> [g EXCEPT !.i = @ + 1,
                                 !.stack = Take(g.stack, e.level) \o <<rstrip(e.name, {"/"})>>,
                                 !.created_dirs = @ + 1,
                                 !.log = Append(@, Event(e, path, "dir"))]]

\* clirig: a file entry
ClirigFileStep(v, d, g, e, s, f, fault) ==
    LET path    == EntryPath(g, e)
        md      == makedirs(d, dirname(path))
        next    == [g EXCEPT !.i = @ + 1, !.stack = Take(g.stack, e.level)]
        stay    == [g EXCEPT !.stack = Take(g.stack, e.level)]
        content == FileContent(v, path[Len(path)], g.root_name, s)
        existed == exists(md.disk, path)
    IN  IF fault = "makedirs" \/ ~md.ok
        THEN [disk |-> IF fault = "makedirs" THEN d ELSE md.disk, crashed |-> TRUE, gen |-> stay]
        ELSE IF ~WriteWantedClirig(f, existed)
        THEN [disk |-> md.disk, crashed |-> FALSE,
              gen  |-> [next EXCEPT !.log = Append(@, Event(e, path, "skipped"))]]
        ELSE IF fault = "open" \/ ~CanOpen(md.disk, path)
        THEN [disk |-> md.disk, crashed |-> TRUE, gen |-> stay]
        ELSE IF fault = "write"
        THEN [disk |-> WriteFile(md.disk, path, NoContent), crashed |-> TRUE, gen |-> stay]
        ELSE [disk |-> WriteFile(md.disk, path, content), crashed |-> FALSE,
              gen  |-> [next EXCEPT !.created_files = @ + 1,
                                    !.log = Append(@, Event(e, path,
                                        IF existed THEN "overwritten" ELSE "created"))]]

\* one iteration of the loop of generate
GenerateStep(v, d, g, s, f, fault) ==
    LET e == s[g.i]
    IN  IF v = "crig"
        THEN IF endswith(e.name, "/") THEN CrigDirStep(d, g, e, fault)
             ELSE CrigFileStep(v, d, g, e, s, f, fault)
        ELSE IF endswith(e.name, "/") THEN ClirigDirStep(d, g, e, fault)
             ELSE ClirigFileStep(v, d, g, e, s, f, fault)

\* the filesystem calls of an iteration that run, hence can raise
FaultPoints(v, d, g, s, f) ==
    LET e    == s[g.i]
        path == EntryPath(g, e)
        md   == makedirs(d, dirname(path))
    IN  IF endswith(e.name, "/") THEN {"makedirs"}
        ELSE {"makedirs"} \cup
             (IF /\ md.ok
                 /\ IF v = "crig" THEN WriteWantedCrig(f, exists(md.disk, path))
                                   ELSE WriteWantedClirig(f, exists(md.disk, path))
              THEN {"open"} \cup
                   (IF /\ CanOpen(md.disk, path)
                       /\ FileContent(v, path[Len(path)], g.root_name, s) # NoContent
                    THEN {"write"} ELSE {})
              ELSE {})

\* crig generate before its loop
GenerateStartCrig(s) ==
    [NoGen EXCEPT !.i = 1,
                  !.root_name = IF s # <<>> THEN rstrip(s[1].name, {"/"})
                                ELSE <<"p", "r", "o", "j", "e", "c", "t">>]

\* clirig generate before its loop: the wrapper directory for several roots
GenerateStartClirig(s) ==
    [NoGen EXCEPT !.i = 1,
                  !.base_path = IF Cardinality(Roots(s)) > 1 THEN <<WrapperDir>> ELSE <<>>,
                  !.root_name = rstrip(FirstRoot(s).name, {"/"})]

(***************************************************************************)
(* The template file and the inputs of the model.                          *)
(***************************************************************************)
\* the lines of the file --init writes: default_template.strip() + "\n"
DefaultTemplate ==
    <<<<"m", "y", "p", "r", "o", "j", "e", "c", "t", "/", "\n">>,
      <<"TEE", "DASH", "DASH", " ", "s", "r", "c", "/", "\n">>,
      <<"VBAR", " ", " ", " ", "TEE", "DASH", "DASH", " ", "_", "_", "i", "n", "i", "t", "_", "_", ".", "p", "y", "\n">>,
      <<"VBAR", " ", " ", " ", "CORNER", "DASH", "DASH", " ", "m", "a", "i", "n", ".", "p", "y", "\n">>,
      <<"TEE", "DASH", "DASH", " ", "t", "e", "s", "t", "s", "/", "\n">>,
      <<"TEE", "DASH", "DASH", " ", "R", "E", "A", "D", "M", "E", ".", "m", "d", "\n">>,
      <<"TEE", "DASH", "DASH", " ", "r", "e", "q", "u", "i", "r", "e", "m", "e", "n", "t", "s", ".", "t", "x", "t", "\n">>,
      <<"CORNER", "DASH", "DASH", " ", ".", "g", "i", "t", "i", "g", "n", "o", "r", "e", "\n">>>>

NameA == <<"a">>

NameADir == <<"a", "/">>

NameBDir == <<"b", "/">>

\* the names Init writes on template lines: a file, a directory of the same
\* name, another directory
Names == {NameA, NameADir, NameBDir}

\* a line no variant keeps: its name starts with "#"
CommentLine == <<"#", "\n">>

\* a line of a no-break space and the letter e acute: crig keeps the letter as
\* a name, clirig drops the line
AccentLine == <<"U+00A0", "U+00E9", "\n">>

\* a line whose name leads through a missing directory b to the entry a of the
\* destination and ends in ".": "b/../a/./"
DetourLine == <<"b", "/", ".", ".", "/", "a", "/", ".", "/", "\n">>

\* a line one level deep whose name climbs out of its directory: "../a"
ClimbLine == <<"\t", ".", ".", "/", "a", "\n">>

\* the lines InitTree draws: tab-indented names, the comment line, the accent
\* line, the climbing line, the detour line
Lines ==
    {Repeat("\t", l) \o n \o <<"\n">> : l \in 0..MaxLevel, n \in Names}
    \cup {CommentLine, AccentLine, ClimbLine, DetourLine}

\* the lines of the templates that are materialized on disk: every line but the
\* comment and the line with a name outside ASCII, which SpecTree covers
DiskLines == Lines \ {CommentLine, AccentLine}

\* the texts of at most n lines drawn from ls
Templates(ls, n) == UNION {[1..k -> ls] : k \in 0..n}

NoTemplate == [exists |-> FALSE, lines |-> <<>>]

TemplateFile(lines) == [exists |-> TRUE, lines |-> lines]

(***************************************************************************)
(* entry_point, the state machine of one invocation, and the next one.     *)
(* The flags of the command line are independent inputs, each read once:   *)
(* the model draws a flag where entry_point reads it.  prev is the outcome *)
(* of the invocation before this one ("none" for the first) and whether    *)
(* its generate printed a warning about a failed filesystem call, disk0    *)
(* the filesystem this invocation started with.  The template is held     *)
(* apart from disk: it is read through -t from a file whose name no line   *)
(* of Lines gives, so no entry of a generated tree meets the template file *)
(* and the first invocation starts from an empty destination.              *)
(***************************************************************************)
\* generate caught an OSError for some entry and printed its message
Warned(g) ==
    \E k \in 1..Len(g.log) :
        g.log[k].result \in {"dir_failed", "parent_failed", "write_failed"}

InitWith(templates) ==
    /\ variant \in Variants
    /\ template \in templates
    /\ disk = EmptyDisk
    /\ disk0 = EmptyDisk
    /\ pc = "start"
    /\ outcome = "none"
    /\ prev = [outcome |-> "none", warned |-> FALSE]
    /\ structure = <<>>
    /\ errors = <<>>
    /\ printed = <<>>
    /\ reparsed = <<>>
    /\ force = FALSE
    /\ gen = NoGen
    /\ faults = 0

Init == InitWith({NoTemplate} \cup {TemplateFile(t) : t \in Templates(DiskLines, MaxTemplate)})

InitTree == InitWith({TemplateFile(t) : t \in Templates(Lines, MaxLines)})

\* the guard of crig's --init branch: an existing template needs --force
InitRefused(v, t, f) == v = "crig" /\ t.exists /\ ~f

\* --init: write the default template, unless crig refuses to overwrite one
EntryInit ==
    /\ pc = "start"
    /\ \E f \in BOOLEAN :
        /\ force' = f
        /\ IF InitRefused(variant, template, f)
           THEN /\ outcome' = "init_refused"
                /\ UNCHANGED template
           ELSE /\ outcome' = "init"
                /\ template' = TemplateFile(DefaultTemplate)
    /\ pc' = "done"
    /\ UNCHANGED <<variant, disk, disk0, prev, structure, errors, printed, reparsed,
                   gen, faults>>

\* no --init and no template file: report and return
EntryMissing ==
    /\ pc = "start"
    /\ ~template.exists
    /\ pc' = "done"
    /\ outcome' = "missing"
    /\ UNCHANGED <<variant, template, disk, disk0, prev, structure, errors, printed,
                   reparsed, force, gen, faults>>

\* structure = parse_template(template_path)
EntryParse ==
    /\ pc = "start"
    /\ template.exists
    /\ structure' = parse_template(variant, template.lines)
    /\ pc' = "parsed"
    /\ UNCHANGED <<variant, template, disk, disk0, prev, outcome, errors, printed,
                   reparsed, force, gen, faults>>

\* a slip in entry_point: duplicate entries alone no longer stop the command
HasErrorsBesidesDuplicates(errs) ==
    \E k \in 1..Len(errs) : errs[k].kind # "duplicate"

\* "if errors:", the test that ends the command after validation
HasErrors(errs) == errs # <<>>

\* errors = validate_structure(structure); errors end the command
EntryValidate ==
    /\ pc = "parsed"
    /\ errors' = validate_structure(variant, structure)
    /\ IF HasErrors(errors')
       THEN pc' = "done" /\ outcome' = "invalid"
       ELSE pc' = "validated" /\ UNCHANGED outcome
    /\ UNCHANGED <<variant, template, disk, disk0, prev, structure, printed, reparsed,
                   force, gen, faults>>

\* --dry-run: print render_tree(structure) and return
EntryDryRun ==
    /\ pc = "validated"
    /\ printed' = render_tree(variant, structure)
    /\ pc' = "done"
    /\ outcome' = "dry"
    /\ UNCHANGED <<variant, template, disk, disk0, prev, structure, errors, reparsed,
                   force, gen, faults>>

\* the printed diagram read back by the parser
Reparse ==
    /\ pc = "done"
    /\ outcome = "dry"
    /\ reparsed' = LevelNames(parse_template(variant, SplitLines(printed)))
    /\ pc' = "reparsed"
    /\ UNCHANGED <<variant, template, disk, disk0, prev, outcome, structure, errors,
                   printed, force, gen, faults>>

\* generate(structure, cwd, force) up to its loop
GenStart ==
    /\ pc = "validated"
    /\ \E f \in BOOLEAN : force' = f
    /\ IF variant = "crig"
       THEN /\ gen' = GenerateStartCrig(structure)
            /\ pc' = "generate"
            /\ UNCHANGED <<disk, faults, outcome>>
       ELSE \E fault \in {"none"} \cup (IF /\ faults < MaxFaults
                                            /\ Cardinality(Roots(structure)) > 1
                                         THEN {"makedirs"} ELSE {}) :
            LET g  == GenerateStartClirig(structure)
                md == makedirs(disk, g.base_path)
            IN  /\ faults' = IF fault = "none" THEN faults ELSE faults + 1
                /\ IF fault = "makedirs" \/ ~md.ok
                   THEN /\ pc' = "crashed"
                        /\ outcome' = "crashed"
                        /\ gen' = [g EXCEPT !.i = 0]
                        /\ UNCHANGED disk
                   ELSE /\ pc' = "generate"
                        /\ gen' = g
                        /\ disk' = md.disk
                        /\ UNCHANGED outcome
    /\ UNCHANGED <<variant, template, disk0, prev, structure, errors, printed, reparsed>>

\* one entry of the structure is materialized
GenStep ==
    /\ pc = "generate"
    /\ gen.i <= Len(structure)
    /\ \E fault \in {"none"} \cup
                    (IF faults < MaxFaults
                     THEN FaultPoints(variant, disk, gen, structure, force) ELSE {}) :
        LET r == GenerateStep(variant, disk, gen, structure, force, fault)
        IN  /\ disk' = r.disk
            /\ gen' = r.gen
            /\ faults' = IF fault = "none" THEN faults ELSE faults + 1
            /\ IF r.crashed
               THEN pc' = "crashed" /\ outcome' = "crashed"
               ELSE UNCHANGED <<pc, outcome>>
    /\ UNCHANGED <<variant, template, disk0, prev, structure, errors, printed, reparsed,
                   force>>

\* the loop is over: the counts are printed and the command reports success
GenFinish ==
    /\ pc = "generate"
    /\ gen.i > Len(structure)
    /\ pc' = "done"
    /\ outcome' = "generated"
    /\ UNCHANGED <<variant, template, disk, disk0, prev, structure, errors, printed,
                   reparsed, force, gen, faults>>

\* the command is run once more, on the template and the disk as they are
Rerun ==
    /\ pc \in {"done", "crashed"}
    /\ prev.outcome = "none"
    /\ prev' = [outcome |-> outcome, warned |-> Warned(gen)]
    /\ disk0' = disk
    /\ pc' = "start"
    /\ outcome' = "none"
    /\ structure' = <<>>
    /\ errors' = <<>>
    /\ printed' = <<>>
    /\ force' = FALSE
    /\ gen' = NoGen
    /\ UNCHANGED <<variant, template, disk, reparsed, faults>>

Next ==
    \/ EntryInit
    \/ EntryMissing
    \/ EntryParse
    \/ EntryValidate
    \/ EntryDryRun
    \/ GenStart
    \/ GenStep
    \/ GenFinish
    \/ Rerun

Spec == Init /\ [][Next]_vars

NextTree ==
    \/ EntryParse
    \/ EntryValidate
    \/ EntryDryRun
    \/ Reparse

\* the validator, the renderer and the parser on longer templates
SpecTree == InitTree /\ [][NextTree]_vars

(***************************************************************************)
(* The tree the entries imply, by position.                                *)
(***************************************************************************)
\* validate_structure has returned for the structure of this state
ValidationDone == pc = "validated" \/ (pc = "done" /\ outcome \in {"invalid", "dry"})

IsDirName(name) == endswith(name, "/")

\* the entry above entry i: the nearest earlier entry at a smaller level (0: none)
Parent(s, i) ==
    IF \E j \in 1..(i - 1) : s[j].level < s[i].level
    THEN CHOOSE j \in 1..(i - 1) :
            /\ s[j].level < s[i].level
            /\ \A k \in (j + 1)..(i - 1) : s[k].level >= s[i].level
    ELSE 0

Siblings(s, i, j) == s[i].level = s[j].level /\ Parent(s, i) = Parent(s, j)

HasError(kind, lineno) ==
    \E k \in 1..Len(errors) : errors[k].kind = kind /\ errors[k].lineno = lineno

\* the lines validation takes for duplicates: reported (crig), skipped (clirig)
TreatedAsDuplicate ==
    {errors[k].lineno : k \in {k \in 1..Len(errors) : errors[k].kind = "duplicate"}}
    \cup (IF variant = "clirig" THEN ValidateClirig(structure).dropped ELSE {})

(***************************************************************************)
(* Claims.                                                                 *)
(***************************************************************************)
\* C1: the diagram render_tree prints for a structure without validation
\* errors, read back line by line through normalize_line and parse_template,
\* gives the (level, name) pairs of the structure, in order.
C1_RoundTrip == pc = "reparsed" => reparsed = LevelNames(structure)

\* C2: a file entry directly followed by a deeper entry always brings a
\* "file cannot have children" error on the line of the deeper entry.
C2_FileChildrenRejected ==
    ValidationDone =>
        \A i \in 1..(Len(structure) - 1) :
            (~IsDirName(structure[i].name) /\ structure[i + 1].level > structure[i].level)
                => HasError("file_children", structure[i + 1].lineno)

\* C3: an entry lying more than one level deeper than the directory entry
\* before it (a level-2 entry right after a level-0 directory) has no ancestor
\* at the level above its own, and brings an "invalid indentation jump" error
\* on its own line.
C3_JumpReported ==
    ValidationDone =>
        \A i \in 2..Len(structure) :
            (IsDirName(structure[i - 1].name)
                /\ structure[i].level > structure[i - 1].level + 1)
                => HasError("jump", structure[i].lineno)

\* C4: a structure without a level-0 entry brings exactly one error, the
\* "template must contain at least one root directory" error.
C4_OnlyNoRootError ==
    (ValidationDone /\ Roots(structure) = {}) => errors = <<Err("no_root", 0, <<>>)>>

\* C5: in a structure with no other fault, an entry is taken for a duplicate
\* only when an earlier entry of the same name and level has the same parent.
C5_DuplicateOnlyUnderSameParent ==
    (ValidationDone /\ \A k \in 1..Len(errors) : errors[k].kind = "duplicate") =>
        \A j \in 1..Len(structure) :
            structure[j].lineno \in TreatedAsDuplicate
                => \E i \in 1..(j - 1) :
                       /\ structure[i].name = structure[j].name
                       /\ Siblings(structure, i, j)

\* C6: in an invocation without --init, a missing template file or a template
\* for which validate_structure returned an error never reaches generate, and
\* the disk stays as the invocation found it: where generate has been entered
\* or the disk has changed, the template exists and validation returned no error.
C6_InvalidTemplateCreatesNothing ==
    ( \/ pc \in {"generate", "crashed"}
      \/ outcome \in {"generated", "crashed"}
      \/ gen # NoGen
      \/ disk # disk0 )
    => /\ template.exists
       /\ errors = <<>>
       /\ outcome \notin {"init", "init_refused", "missing", "invalid"}

\* C6 witness: an invocation ended on validation errors of an existing template.
C6_Witness ==
    /\ pc = "done"
    /\ outcome = "invalid"
    /\ template.exists
    /\ Len(structure) >= 2
    /\ errors # <<>>

\* the entries generate has put on disk so far
Materialized == {k \in 1..Len(gen.log) : gen.log[k].result \in {"dir", "created", "overwritten"}}

\* where the path of the k-th processed entry lies on the disk
LocationOf(k) == Resolve(disk, gen.log[k].path).loc

\* C7: with two or more level-0 entries, everything generate creates lies
\* beneath one wrapper directory of the destination, no root directly in it.
C7_RootsUnderOneWrapper ==
    (pc \in {"generate", "done", "crashed"} /\ Cardinality(Roots(structure)) >= 2)
    => \E w \in {LocationOf(k)[1] : k \in {m \in Materialized : LocationOf(m) # <<>>}}
                \cup {WrapperDir} :
           \A k \in Materialized :
               Len(LocationOf(k)) >= 2 /\ LocationOf(k)[1] = w

\* the second of two complete runs of crig generate on the same list, without
\* --force and without an injected fault, the first one into an empty destination
SecondRunDone ==
    /\ variant = "crig"
    /\ prev.outcome = "generated"
    /\ pc = "done"
    /\ outcome = "generated"
    /\ ~force
    /\ faults = 0

\* no filesystem call of the first run failed: it printed no warning and no
\* write error
FirstRunClean == ~prev.warned

\* the second run wrote no file and counted no created file
SecondRunWroteNothing ==
    /\ disk.files = disk0.files
    /\ \A k \in 1..Len(gen.log) : gen.log[k].result \notin {"created", "overwritten"}
    /\ gen.created_files = 0

\* no file entry of the structure is directly followed by a deeper entry
FilesHaveNoChildren ==
    \A i \in 1..(Len(structure) - 1) :
        IsDirName(structure[i].name) \/ structure[i + 1].level <= structure[i].level

C9_EveryEntryProcessed ==
    (pc \in {"done", "crashed"} /\ gen.i >= 1)
    => (gen.i = Len(structure) + 1 /\ outcome = "generated")

\* the connector of the i-th printed line, the four characters before the name
ConnectorOf(i) ==
    LET line == rstrip(SplitLines(printed)[i], {"\n"})
        n    == Len(structure[i].name)
    IN  SubSeq(line, Len(line) - n - 3, Len(line) - n)

\* C10: a printed line has the corner connector exactly when no later entry
\* is a sibling of its entry, and the tee connector otherwise.
C10_CornerIffLastSibling ==
    (pc = "done" /\ outcome = "dry") =>
        \A i \in 1..Len(structure) :
            IF \E j \in (i + 1)..Len(structure) : Siblings(structure, i, j)
            THEN ConnectorOf(i) = TeeConnector
            ELSE ConnectorOf(i) = CornerConnector

\* the nearest entry before the i-th one that is exactly one level above it,
\* 0 when there is none
PositionalParent(s, i) ==
    LET above == {j \in 1..(i - 1) : s[j].level = s[i].level - 1}
    IN  IF above = {} THEN 0
        ELSE CHOOSE j \in above : \A k \in above : k <= j

RECURSIVE HasAncestorChain(_, _)
\* the i-th entry has a positional parent at every level up to level 0
HasAncestorChain(s, i) ==
    IF s[i].level = 0 THEN TRUE
    ELSE /\ PositionalParent(s, i) # 0
         /\ HasAncestorChain(s, PositionalParent(s, i))

RECURSIVE AncestorNames(_, _)
\* the names of the ancestor chain of the i-th entry, from level 0 downwards
AncestorNames(s, i) ==
    IF s[i].level = 0 THEN <<>>
    ELSE AncestorNames(s, PositionalParent(s, i))
         \o <<rstrip(s[PositionalParent(s, i)].name, {"/"})>>

\* a complete run of generate in which no filesystem call failed
GenerateDoneWithoutFailure ==
    /\ pc = "done"
    /\ outcome = "generated"
    /\ Len(gen.log) = Len(structure)
    /\ \A k \in 1..Len(gen.log) :
           gen.log[k].result \in {"dir", "created", "overwritten", "skipped"}

\* C11: after a run of generate on a validated list with no I/O failure, every
\* entry that was created lies at the destination (or wrapper) directory
\* followed by the names of its ancestor chain and its own name, the chain
\* going from each entry to the nearest preceding entry one level above it.
C11_CreatedUnderPositionalParent ==
    GenerateDoneWithoutFailure =>
        \A k \in Materialized :
            HasAncestorChain(structure, k) =>
                gen.log[k].path =
                    gen.base_path
                    \o Concat([n \in 1..Len(AncestorNames(structure, k)) |->
                                  SplitPath(AncestorNames(structure, k)[n])])
                    \o SplitPath(rstrip(structure[k].name, {"/"}))

====
